---- MODULE Spec2Model ----
(***************************************************************************)
(* Soil-moisture control loop of idmantelli/NMSBA.                         *)
(*                                                                         *)
(*   Pico-main.py       the sensor program: calibration, read_sensor, the  *)
(*                      pump_relay and measure_moisture tasks, the         *)
(*                      try/finally shutdown                               *)
(*   Pico_main_OOP.py   the class-based variant of the same program        *)
(*   RPi-main.py        the receiver: App.on_message, App.record_to_csv    *)
(*                                                                         *)
(* Spec     the sensor program (both variants, chosen at start)            *)
(* SpecCalc read_sensor as a pure function over drawn inputs               *)
(* SpecRx   the receiver's message callback under an advancing clock       *)
(* SpecFault the sensor program with failing sensor reads and a failing    *)
(*          client.disconnect()                                            *)
(* SpecTime the sleeps of the two tasks of the sensor program on a clock   *)
(* SpecLive the two tasks under the event loop's fairness to pump_relay    *)
(***************************************************************************)
EXTENDS Integers, Sequences, FiniteSets, TLC

VARIABLES
    variant,        \* which sensor program runs: "main" (Pico-main.py) or "oop"
    pc,             \* position of the program: start, running, finally, done
    mm,             \* position of measure_moisture: sleep, or publish (awaiting the ack)
    led,            \* level of the onboard LED pin
    relay,          \* level of the pump relay pin (GPIO 18)
    HI_ADC,         \* 'dry' calibration value
    LO_ADC,         \* 'wet' calibration value
    inflight,       \* the message handed to client.publish and not yet acknowledged
    exc,            \* the exception that ended main(), with the relay level at the raise
    last,           \* the operation performed by the latest step and the ADC value it read
    c_raw1, c_raw2, c_hi, c_lo, c_p1, c_p2, c_pc,   \* SpecCalc: inputs, results, position
    now,            \* receiver: the wall clock, in minutes since midnight
    current_moisture,   \* receiver: App.current_moisture, a str
    readback,       \* receiver: the text shown by the readback widget
    csv_record_time,    \* receiver: App.csv_record_time
    csvfile,        \* receiver: the rows appended to the csv file, oldest first
    pi_relay,       \* receiver: level of the Pi's relay output
    rx_exc,         \* receiver: the exception the latest callback raised, or "none"
    rx_last,        \* receiver: the latest step (history)
    dev_time,       \* receiver: per device, now_time of its latest persisted reading (history)
    clock,          \* SpecTime: seconds since the task group started the two tasks
    sched,          \* SpecTime: per task, the time at which its pending sleep ends
    ran             \* SpecTime: per task, the times of its latest two loop bodies (history)

vars == <<variant, pc, mm, led, relay, HI_ADC, LO_ADC, inflight, exc, last,
          c_raw1, c_raw2, c_hi, c_lo, c_p1, c_p2, c_pc,
          now, current_moisture, readback, csv_record_time, csvfile, pi_relay,
          rx_exc, rx_last, dev_time, clock, sched, ran>>

picoVars == <<variant, pc, mm, led, relay, HI_ADC, LO_ADC, inflight, exc, last>>

calcVars == <<c_raw1, c_raw2, c_hi, c_lo, c_p1, c_p2, c_pc>>

rxVars == <<now, current_moisture, readback, csv_record_time, csvfile, pi_relay,
            rx_exc, rx_last, dev_time>>

timeVars == <<clock, sched, ran>>

(***************************************************************************)
(* Program constants                                                       *)
(***************************************************************************)
HI_ADC_0 == 48600

LO_ADC_0 == 19400

pump_upper_bound == 70

pump_lower_bound == 40

oop_threshold == 30

pico_name == "pico1"

\* ADC.read_u16() returns a 16-bit value; the readings the environment supplies
\* here are a sample of that range.  With the initial calibration they give the
\* percentages 132, 75, 70 (upper), 55, 40 (lower), 35 and -4.
RawValues == {10000, 26700, 28160, 32540, 36920, 38380, 50000}

(***************************************************************************)
(* read_sensor: int(((high - raw) * 100) / (high - low)).  '/' is true     *)
(* division and int() drops the fraction, so the quotient is truncated     *)
(* toward zero; a zero divisor raises ZeroDivisionError.  The numerator is  *)
(* below 2^24 in magnitude for 16-bit readings, so the quotient of a       *)
(* single-precision float never rounds up to the next integer and int()    *)
(* yields the exact truncated quotient.                                    *)
(***************************************************************************)
Abs(x) == IF x < 0 THEN -x ELSE x

\* mutant: floor division, n // d
floor_div(n, d) ==
    IF d > 0 THEN n \div d ELSE (-n) \div (-d)

int_truediv(n, d) ==
    LET q == Abs(n) \div Abs(d)
    IN  IF (n < 0) = (d < 0) THEN q ELSE -q

read_sensor_raises(sensor_high_value, sensor_low_value) ==
    sensor_high_value - sensor_low_value = 0

\* mutant: the percentage measured from the wet end
read_sensor_from_low(raw, sensor_high_value, sensor_low_value) ==
    int_truediv((raw - sensor_low_value) * 100,
                sensor_high_value - sensor_low_value)

read_sensor(raw, sensor_high_value, sensor_low_value) ==
    int_truediv((sensor_high_value - raw) * 100,
                sensor_high_value - sensor_low_value)

(***************************************************************************)
(* Text: a Python str is a sequence of one-character strings.              *)
(***************************************************************************)
Digits == <<"0", "1", "2", "3", "4", "5", "6", "7", "8", "9">>

RECURSIVE NatToStr(_)
NatToStr(n) ==
    IF n < 10 THEN <<Digits[n + 1]>>
    ELSE Append(NatToStr(n \div 10), Digits[(n % 10) + 1])

\* f'{moisture1}' for an int
format_int(n) ==
    IF n < 0 THEN <<"-">> \o NatToStr(-n) ELSE NatToStr(n)

\* f'soilmoisture/{pico_name}/sensor1'
topic_of(name) == "soilmoisture/" \o name \o "/sensor1"

NoMsg == [topic |-> "", payload |-> <<>>, qos |-> 0]

NoExc == [kind |-> "none", relay |-> 0]

(***************************************************************************)
(* The sensor program                                                      *)
(***************************************************************************)
\* relay = Pin(18, Pin.OUT): the output latch of the pin after reset
RelayInit == 0

\* the sensor program before main() runs; v is the program chosen
PicoStart(v) ==
    /\ variant = v
    /\ pc = "start"
    /\ mm = "sleep"
    /\ led = 0
    /\ relay = RelayInit
    /\ HI_ADC = HI_ADC_0
    /\ LO_ADC = LO_ADC_0
    /\ inflight = NoMsg
    /\ exc = NoExc
    /\ last = [op |-> "init", raw |-> 0]

CalcIdle ==
    /\ c_raw1 = 0 /\ c_raw2 = 0 /\ c_hi = 0 /\ c_lo = 0
    /\ c_p1 = 0 /\ c_p2 = 0 /\ c_pc = "idle"

\* An exception leaves main(): the task group cancels the other task and
\* asyncio.run re-raises into the try statement, whose finally clause runs next.
Raise(kind, op, raw) ==
    /\ pc' = "finally"
    /\ exc' = [kind |-> kind, relay |-> relay]
    /\ last' = [op |-> op, raw |-> raw]
    /\ inflight' = NoMsg
    /\ UNCHANGED <<calcVars, rxVars, timeVars, variant, mm, led, relay, HI_ADC, LO_ADC>>

\* main(): await client.connect(); led.on(); the task group starts both tasks
Connect ==
    /\ pc = "start"
    /\ pc' = "running"
    /\ led' = 1
    /\ last' = [op |-> "connect", raw |-> 0]
    /\ UNCHANGED <<calcVars, rxVars, timeVars, variant, mm, relay, HI_ADC, LO_ADC, inflight, exc>>

ConnectFail ==
    /\ pc = "start"
    /\ Raise("connect", "connect_fail", 0)

\* mutant: the dry-point callback stores its reading in both calibration values
calibrate_sensor_0_both(raw) ==
    /\ pc \in {"start", "running", "finally"}
    /\ HI_ADC' = raw
    /\ LO_ADC' = raw
    /\ last' = [op |-> "calibrate_0", raw |-> raw]
    /\ UNCHANGED <<calcVars, rxVars, timeVars, variant, pc, mm, led, relay, inflight, exc>>

\* button callbacks: HI_ADC = sensor.read_u16() / LO_ADC = sensor.read_u16()
calibrate_sensor_0(raw) ==
    /\ pc \in {"start", "running", "finally"}
    /\ HI_ADC' = raw
    /\ last' = [op |-> "calibrate_0", raw |-> raw]
    /\ UNCHANGED <<calcVars, rxVars, timeVars, variant, pc, mm, led, relay, LO_ADC, inflight, exc>>

calibrate_sensor_100(raw) ==
    /\ pc \in {"start", "running", "finally"}
    /\ LO_ADC' = raw
    /\ last' = [op |-> "calibrate_100", raw |-> raw]
    /\ UNCHANGED <<calcVars, rxVars, timeVars, variant, pc, mm, led, relay, HI_ADC, inflight, exc>>

\* mutant: the pump also switches on at the lower bound itself
relay_main_le(level, moisture) ==
    IF moisture <= pump_lower_bound THEN 1
    ELSE IF moisture > pump_upper_bound THEN 0
    ELSE level

\* Pico-main.py: if moisture < lower: relay.value(1) elif moisture > upper: relay.value(0)
relay_main(level, moisture) ==
    IF moisture < pump_lower_bound THEN 1
    ELSE IF moisture > pump_upper_bound THEN 0
    ELSE level

\* Pico_main_OOP.py: if moisture1 < 30: relay.value(1) else: relay.value(0)
relay_oop(level, moisture) ==
    IF moisture < oop_threshold THEN 1 ELSE 0

\* mutant: the dry value is the task's parameter sensor_high_value (bound when
\* the task was created), the wet value the global
pump_relay_mixed_pair(raw) ==
    /\ pc = "running"
    /\ IF read_sensor_raises(HI_ADC_0, LO_ADC)
       THEN Raise("zerodiv", "pump_relay_raise", raw)
       ELSE LET moisture == read_sensor(raw, HI_ADC_0, LO_ADC)
            IN  /\ relay' = IF variant = "main" THEN relay_main(relay, moisture)
                                                ELSE relay_oop(relay, moisture)
                /\ last' = [op |-> "pump_relay", raw |-> raw]
                /\ UNCHANGED <<calcVars, rxVars, timeVars, variant, pc, mm, led, HI_ADC, LO_ADC, inflight, exc>>

\* mutant: the evaluation waits for the publish in flight, as if both steps were
\* one loop
pump_relay_after_publish(raw) ==
    /\ pc = "running"
    /\ mm = "sleep"
    /\ IF read_sensor_raises(HI_ADC, LO_ADC)
       THEN Raise("zerodiv", "pump_relay_raise", raw)
       ELSE LET moisture == read_sensor(raw, HI_ADC, LO_ADC)
            IN  /\ relay' = IF variant = "main" THEN relay_main(relay, moisture)
                                                ELSE relay_oop(relay, moisture)
                /\ last' = [op |-> "pump_relay", raw |-> raw]
                /\ UNCHANGED <<calcVars, rxVars, timeVars, variant, pc, mm, led, HI_ADC, LO_ADC, inflight, exc>>

\* one pass of pump_relay's loop body
pump_relay(raw) ==
    /\ pc = "running"
    /\ IF read_sensor_raises(HI_ADC, LO_ADC)
       THEN Raise("zerodiv", "pump_relay_raise", raw)
       ELSE LET moisture == read_sensor(raw, HI_ADC, LO_ADC)
            IN  /\ relay' = IF variant = "main" THEN relay_main(relay, moisture)
                                                ELSE relay_oop(relay, moisture)
                /\ last' = [op |-> "pump_relay", raw |-> raw]
                /\ UNCHANGED <<calcVars, rxVars, timeVars, variant, pc, mm, led, HI_ADC, LO_ADC, inflight, exc>>

\* mutant: the percentage clamped to 0..100 before it is published
publish_msg_clamped(moisture1) ==
    [topic |-> topic_of(pico_name),
     payload |-> format_int(IF moisture1 < 0 THEN 0
                            ELSE IF moisture1 > 100 THEN 100 ELSE moisture1),
     qos |-> 1]

\* the message measure_moisture hands to client.publish
publish_msg(moisture1) ==
    [topic |-> topic_of(pico_name), payload |-> format_int(moisture1), qos |-> 1]

\* one pass of measure_moisture's loop body up to the await on client.publish
measure_moisture(raw) ==
    /\ pc = "running"
    /\ mm = "sleep"
    /\ IF read_sensor_raises(HI_ADC, LO_ADC)
       THEN Raise("zerodiv", "measure_raise", raw)
       ELSE /\ inflight' = publish_msg(read_sensor(raw, HI_ADC, LO_ADC))
            /\ mm' = "publish"
            /\ last' = [op |-> "publish", raw |-> raw]
            /\ UNCHANGED <<calcVars, rxVars, timeVars, variant, pc, led, relay, HI_ADC, LO_ADC, exc>>

\* client.publish returns: the loop goes back to its sleep
PublishAck ==
    /\ pc = "running"
    /\ mm = "publish"
    /\ mm' = "sleep"
    /\ inflight' = NoMsg
    /\ last' = [op |-> "ack", raw |-> 0]
    /\ UNCHANGED <<calcVars, rxVars, timeVars, variant, pc, led, relay, HI_ADC, LO_ADC, exc>>

\* mutant: a failed publish is recorded and both loops carry on
PublishFailLoopsCarryOn ==
    /\ pc = "running"
    /\ mm = "publish"
    /\ mm' = "sleep"
    /\ inflight' = NoMsg
    /\ exc' = [kind |-> "publish", relay |-> relay]
    /\ last' = [op |-> "publish_fail", raw |-> 0]
    /\ UNCHANGED <<calcVars, rxVars, timeVars, variant, pc, led, relay, HI_ADC, LO_ADC>>

\* client.publish raises
PublishFail ==
    /\ pc = "running"
    /\ mm = "publish"
    /\ Raise("publish", "publish_fail", 0)

\* mutant: a shutdown that does not drive the relay low
FinallyKeepsRelay ==
    /\ pc = "finally"
    /\ pc' = "done"
    /\ led' = 0
    /\ last' = [op |-> "finally", raw |-> 0]
    /\ UNCHANGED <<calcVars, rxVars, timeVars, variant, mm, relay, HI_ADC, LO_ADC, inflight, exc>>

\* finally: client.disconnect(); led.off(); relay.value(0)
Finally ==
    /\ pc = "finally"
    /\ pc' = "done"
    /\ led' = 0
    /\ relay' = 0
    /\ last' = [op |-> "finally", raw |-> 0]
    /\ UNCHANGED <<calcVars, rxVars, timeVars, variant, mm, HI_ADC, LO_ADC, inflight, exc>>

Calibrate0 == \E raw \in RawValues : calibrate_sensor_0(raw)

Calibrate100 == \E raw \in RawValues : calibrate_sensor_100(raw)

PumpRelayTick == \E raw \in RawValues : pump_relay(raw)

MeasureTick == \E raw \in RawValues : measure_moisture(raw)

Next ==
    \/ Connect
    \/ ConnectFail
    \/ Calibrate0
    \/ Calibrate100
    \/ PumpRelayTick
    \/ MeasureTick
    \/ PublishAck
    \/ PublishFail
    \/ Finally

(***************************************************************************)
(* The sensor program with failing steps: sensor.read_u16() raising, and   *)
(* client.disconnect() raising in the finally clause.  No statement of     *)
(* either program is inside a try with an except clause.                   *)
(***************************************************************************)
\* read_sensor raises in pump_relay: the exception leaves the task
PumpRelayReadFails ==
    /\ pc = "running"
    /\ Raise("sensor", "pump_relay_read_fail", 0)

\* read_sensor raises in measure_moisture, before client.publish is reached
MeasureReadFails ==
    /\ pc = "running"
    /\ mm = "sleep"
    /\ Raise("sensor", "measure_read_fail", 0)

\* sensor.read_u16() raises in a button callback (name is the callback's): the
\* assignment it is the right-hand side of does not happen
calibrate_read_fails(name) ==
    /\ pc \in {"start", "running", "finally"}
    /\ last' = [op |-> name, raw |-> 0]
    /\ UNCHANGED <<calcVars, rxVars, timeVars, variant, pc, mm, led, relay, HI_ADC, LO_ADC,
                   inflight, exc>>

CalibrateReadFails ==
    \E name \in {"calibrate_0_fail", "calibrate_100_fail"} : calibrate_read_fails(name)

\* finally: client.disconnect() raises; led.off() and relay.value(0), the
\* statements after it, are not reached
FinallyDisconnectRaises ==
    /\ pc = "finally"
    /\ pc' = "done"
    /\ exc' = [kind |-> "disconnect", relay |-> relay]
    /\ last' = [op |-> "disconnect_fail", raw |-> 0]
    /\ UNCHANGED <<calcVars, rxVars, timeVars, variant, mm, led, relay, HI_ADC, LO_ADC, inflight>>

NextFault ==
    \/ Connect
    \/ ConnectFail
    \/ Calibrate0
    \/ Calibrate100
    \/ PumpRelayTick
    \/ MeasureTick
    \/ PublishAck
    \/ PublishFail
    \/ Finally
    \/ PumpRelayReadFails
    \/ MeasureReadFails
    \/ CalibrateReadFails
    \/ FinallyDisconnectRaises

(***************************************************************************)
(* read_sensor over drawn inputs                                           *)
(***************************************************************************)
\* the values HI_ADC and LO_ADC can hold: the initial ones, or a calibration reading
CalValues == RawValues \cup {HI_ADC_0, LO_ADC_0}

\* the readings drawn for read_sensor alone: the sample, and the reading 34000
CalcRaws == RawValues \cup {34000}

CalcInit ==
    /\ c_raw1 \in CalcRaws
    /\ c_raw2 \in CalcRaws
    /\ c_hi \in CalValues
    /\ c_lo \in CalValues
    /\ c_p1 = 0
    /\ c_p2 = 0
    /\ c_pc = "input"

CalcApply ==
    /\ c_pc = "input"
    /\ ~read_sensor_raises(c_hi, c_lo)
    /\ c_p1' = read_sensor(c_raw1, c_hi, c_lo)
    /\ c_p2' = read_sensor(c_raw2, c_hi, c_lo)
    /\ c_pc' = "done"
    /\ UNCHANGED <<picoVars, rxVars, timeVars, c_raw1, c_raw2, c_hi, c_lo>>

CalcRaise ==
    /\ c_pc = "input"
    /\ read_sensor_raises(c_hi, c_lo)
    /\ c_pc' = "raised"
    /\ UNCHANGED <<picoVars, rxVars, timeVars, c_raw1, c_raw2, c_hi, c_lo, c_p1, c_p2>>

NextCalc ==
    \/ CalcApply
    \/ CalcRaise

(***************************************************************************)
(* The receiver (RPi-main.py)                                              *)
(***************************************************************************)
self_pump_upper_bound == 60

self_pump_lower_bound == 30

\* the clock runs from StartClock (09:58) for MaxClock minutes, across an hour boundary
StartClock == 598

MaxClock == 2

Devices == {"pico1", "pico2"}

\* payloads the broker delivers: two decimal integers and one that is no number
RxPayloads == {<<"6", "2">>, <<"-", "4">>, <<"a", "b", "c">>}

two_digits(n) == <<Digits[(n \div 10) + 1], Digits[(n % 10) + 1]>>

\* datetime.now().strftime('%y%m%d%H%M') at minute t of the day; the day of the
\* run is fixed (14 March 2021) as the clock never passes midnight here
strftime(t) ==
    <<"2", "1", "0", "3", "1", "4">> \o two_digits(t \div 60) \o two_digits(t % 60)

digit_value(c) == CHOOSE k \in 0..9 : Digits[k + 1] = c

is_digits(s) ==
    /\ Len(s) > 0
    /\ \A i \in 1..Len(s) : \E k \in 1..10 : Digits[k] = s[i]

RECURSIVE digits_value(_)
digits_value(s) ==
    IF Len(s) = 0 THEN 0
    ELSE digits_value(SubSeq(s, 1, Len(s) - 1)) * 10 + digit_value(s[Len(s)])

\* whether int(s) returns (an optional sign, then digits) rather than raising ValueError
int_parses(s) ==
    IF Len(s) > 0 /\ s[1] \in {"-", "+"} THEN is_digits(Tail(s)) ELSE is_digits(s)

\* int(s) for such a string
int_of(s) ==
    IF s[1] = "-" THEN -digits_value(Tail(s))
    ELSE IF s[1] = "+" THEN digits_value(Tail(s))
    ELSE digits_value(s)

\* str(50)
current_moisture_0 == NatToStr(50)

NoStep == [op |-> "init", topic |-> "", payload |-> <<>>, now_time |-> 0, kept |-> FALSE]

RxInit ==
    /\ now = StartClock
    /\ current_moisture = current_moisture_0
    /\ readback = <<>>
    /\ csv_record_time = 0
    /\ csvfile = <<>>
    /\ pi_relay = 0
    /\ rx_exc = "none"
    /\ rx_last = NoStep
    /\ dev_time = [d \in Devices |-> 0]

\* mutant: the readback refreshed before the attribute is assigned
readback_text_stale(moisture) ==
    <<"S", "o", "i", "l", " ", "m", "o", "i", "s", "t", "u", "r", "e", ":", " ">>
        \o current_moisture \o <<"%">>

\* 'Soil moisture: ' + self.current_moisture + '%'
readback_text(moisture) ==
    <<"S", "o", "i", "l", " ", "m", "o", "i", "s", "t", "u", "r", "e", ":", " ">>
        \o moisture \o <<"%">>

\* record_to_csv(data), called when the clock shows minute t: the row it appends
csv_row(t, data) == <<strftime(t), data>>

\* the comparison of on_message's relay rule: self.current_moisture is a str and
\* the bound an int, and '<' between str and int raises TypeError
relay_rule_raises(moisture_is_str) == moisture_is_str

\* if moisture < lower: relay.on() elif moisture >= upper: relay.off(), for a
\* moisture that compares with an int
relay_rule(level, moisture) ==
    IF moisture < self_pump_lower_bound THEN 1
    ELSE IF moisture >= self_pump_upper_bound THEN 0
    ELSE level

\* mutant: a reading is persisted only two or more minutes on
is_due_strict(now_time, record_time) == now_time - record_time > 1

\* whether on_message persists the reading
is_due(now_time, record_time) == now_time - record_time >= 1

\* on_message for a message on topic_of(dev) with this payload.  The clock is
\* read once in on_message and once more in record_to_csv; roll is the number of
\* minutes (0 or 1) it advanced in between.  The callback ends by raising
\* TypeError (rx_exc); what the transport does with a raising callback is not
\* part of this repository, and the callback stays invocable here.
on_message(dev, payload, roll) ==
    LET now_time == int_of(strftime(now))
        kept == is_due(now_time, csv_record_time)
    IN  /\ roll = 1 => kept /\ now < StartClock + MaxClock
        /\ current_moisture' = payload
        /\ readback' = readback_text(payload)
        /\ IF kept
           THEN /\ csvfile' = Append(csvfile, csv_row(now + roll, payload))
                /\ csv_record_time' = now_time
                /\ now' = now + roll
                /\ dev_time' = [dev_time EXCEPT ![dev] = now_time]
           ELSE UNCHANGED <<csvfile, csv_record_time, now, dev_time>>
        /\ IF relay_rule_raises(TRUE)
           THEN /\ rx_exc' = "TypeError"
                /\ pi_relay' = pi_relay
           ELSE /\ rx_exc' = "none"
                /\ pi_relay' = relay_rule(pi_relay, int_of(payload))
        /\ rx_last' = [op |-> "on_message", topic |-> topic_of(dev),
                       payload |-> payload, now_time |-> now_time, kept |-> kept]
        /\ UNCHANGED <<picoVars, calcVars, timeVars>>

\* a minute passes
ClockTick ==
    /\ now < StartClock + MaxClock
    /\ now' = now + 1
    /\ rx_last' = [NoStep EXCEPT !.op = "tick"]
    /\ UNCHANGED <<picoVars, calcVars, timeVars, current_moisture, readback, csv_record_time,
                   csvfile, pi_relay, rx_exc, dev_time>>

OnMessage ==
    \E dev \in Devices, payload \in RxPayloads, roll \in {0, 1} :
        on_message(dev, payload, roll)

NextRx ==
    \/ OnMessage
    \/ ClockTick

(***************************************************************************)
(* The sleeps of the two tasks.  Each loop awaits asyncio.sleep(seconds)   *)
(* once per pass; measure_moisture also awaits client.publish, which at    *)
(* qos = 1 returns when the broker has acknowledged the message.           *)
(***************************************************************************)
\* pump_relay: await asyncio.sleep(1)
pump_relay_sleep == 1

\* measure_moisture: await asyncio.sleep(1)
measure_moisture_sleep == 1

\* the clock stops at MaxTime; an acknowledgement takes 0..MaxAckDelay seconds
MaxTime == 12

MaxAckDelay == 2

Tasks == {"pump_relay", "measure_moisture"}

\* both tasks start at time 0 and sleep first; 0 in ran stands for 'not yet'
TimeInit ==
    /\ clock = 0
    /\ sched = [task \in Tasks |-> IF task = "pump_relay" THEN pump_relay_sleep
                                                         ELSE measure_moisture_sleep]
    /\ ran = [task \in Tasks |-> <<0, 0>>]

\* pump_relay's sleep ends: the loop body evaluates, and the next sleep begins
pump_relay_wakes ==
    /\ sched["pump_relay"] = clock
    /\ ran' = [ran EXCEPT !["pump_relay"] = <<@[2], clock>>]
    /\ sched' = [sched EXCEPT !["pump_relay"] = clock + pump_relay_sleep]
    /\ UNCHANGED <<picoVars, calcVars, rxVars, clock>>

\* measure_moisture's sleep ends: the loop body publishes, the acknowledgement
\* arrives ack_delay seconds later, and the next sleep begins
measure_moisture_wakes(ack_delay) ==
    /\ sched["measure_moisture"] = clock
    /\ ran' = [ran EXCEPT !["measure_moisture"] = <<@[2], clock>>]
    /\ sched' = [sched EXCEPT !["measure_moisture"] =
                                  clock + ack_delay + measure_moisture_sleep]
    /\ UNCHANGED <<picoVars, calcVars, rxVars, clock>>

MeasureMoistureWakes == \E ack_delay \in 0..MaxAckDelay : measure_moisture_wakes(ack_delay)

\* a second passes while no task is due
TimePasses ==
    /\ clock < MaxTime
    /\ \A task \in Tasks : sched[task] > clock
    /\ clock' = clock + 1
    /\ UNCHANGED <<picoVars, calcVars, rxVars, sched, ran>>

NextTime ==
    \/ pump_relay_wakes
    \/ MeasureMoistureWakes
    \/ TimePasses

(***************************************************************************)
(* Specifications                                                          *)
(***************************************************************************)
Init ==
    /\ \E v \in {"main", "oop"} : PicoStart(v)
    /\ CalcIdle
    /\ RxInit
    /\ TimeInit

Spec == Init /\ [][Next]_vars

InitCalc ==
    /\ PicoStart("main")
    /\ CalcInit
    /\ RxInit
    /\ TimeInit

SpecCalc == InitCalc /\ [][NextCalc]_vars

InitRx ==
    /\ PicoStart("main")
    /\ CalcIdle
    /\ RxInit
    /\ TimeInit

SpecRx == InitRx /\ [][NextRx]_vars

SpecFault == Init /\ [][NextFault]_vars

SpecTime == InitRx /\ [][NextTime]_vars

\* The scheduling of the two tasks alone: the steps of Next without the button
\* callbacks, so the calibration stays the initial one.
NextLive ==
    \/ Connect
    \/ ConnectFail
    \/ PumpRelayTick
    \/ MeasureTick
    \/ PublishAck
    \/ PublishFail
    \/ Finally

\* The event loop resumes a task whose sleep has ended: while the program runs,
\* pump_relay's next pass is not postponed forever.  Nothing is assumed of the
\* broker: an acknowledgement may never come.
SpecLive == Init /\ [][NextLive]_vars /\ WF_vars(PumpRelayTick)

(***************************************************************************)
(* Properties                                                              *)
(***************************************************************************)
\* the percentage a tick computed, from the reading it took and the calibration
\* in force (a tick leaves the calibration as it is)
percent_at(raw) == read_sensor(raw, HI_ADC, LO_ADC)

\* the two-threshold rule of the Actuator: lower = 40, upper = 70
two_threshold(level, percent) ==
    IF level = 0 THEN (IF percent < pump_lower_bound THEN 1 ELSE 0)
    ELSE (IF percent > pump_upper_bound THEN 0 ELSE 1)

\* q is the quotient n / d truncated toward zero
is_truncated_quotient(q, n, d) ==
    /\ Abs(q) * Abs(d) <= Abs(n)
    /\ Abs(n) < (Abs(q) + 1) * Abs(d)
    /\ q > 0 => ((n > 0) = (d > 0))
    /\ q < 0 => ((n > 0) # (d > 0))

\* C1: on every evaluation tick of pump_relay the relay follows the two-threshold
\* rule: Off becomes On exactly when percent < lower, On becomes Off exactly
\* when percent > upper, and lower <= percent <= upper leaves the relay as it was.
C1_TwoThresholdRule ==
    [][last'.op = "pump_relay"
         => relay' = two_threshold(relay, percent_at(last'.raw))]_vars

\* Pico-main.py alone follows the rule of C1 on every tick.
MainFollowsTwoThreshold ==
    [][last'.op = "pump_relay" /\ variant = "main"
         => relay' = two_threshold(relay, percent_at(last'.raw))]_vars

\* C2: over the evaluation ticks the relay output changes level only on a state
\* transition of the two-threshold machine (Off with percent < lower, On with
\* percent > upper), and a tick whose percent is strictly inside (lower, upper)
\* never changes the output.
C2_ChatterFree ==
    [][last'.op = "pump_relay"
         => LET percent == percent_at(last'.raw)
            IN  /\ relay' # relay
                     => \/ relay = 0 /\ percent < pump_lower_bound
                        \/ relay = 1 /\ percent > pump_upper_bound
                /\ pump_lower_bound < percent /\ percent < pump_upper_bound
                     => relay' = relay]_vars

C4_OffUntilLowReading ==
    /\ relay = 0
    /\ [][relay = 0 /\ relay' = 1
            => /\ pc = "running"
               /\ last'.op = "pump_relay"
               /\ percent_at(last'.raw) < pump_lower_bound]_vars

\* the relay is On after a tick that read a percentage below lower
C4_Witness ==
    /\ relay = 1
    /\ pc = "running"
    /\ last.op = "pump_relay"
    /\ percent_at(last.raw) < pump_lower_bound

\* C5: read_sensor returns ((dry - raw) * 100) / (dry - wet) truncated toward
\* zero for every reading and all bounds with dry # wet, negative quotients and
\* quotients above 100 included; dry = 48600, wet = 19400, raw = 34000 gives 50.
C5_TruncatedTowardZero ==
    c_pc = "done"
        => /\ is_truncated_quotient(c_p1, (c_hi - c_raw1) * 100, c_hi - c_lo)
           /\ is_truncated_quotient(c_p2, (c_hi - c_raw2) * 100, c_hi - c_lo)
           /\ c_hi = 48600 /\ c_lo = 19400 /\ c_raw1 = 34000 => c_p1 = 50

\* a negative quotient with a fraction (truncation and flooring differ), and a
\* quotient above 100
C5_Witness ==
    /\ c_pc = "done"
    /\ c_p1 < 0
    /\ c_p1 * (c_hi - c_lo) # (c_hi - c_raw1) * 100
    /\ c_p2 > 100

\* C6: with dry > wet and raw1 <= raw2 <= dry, percent(raw1) >= percent(raw2).
C6_Monotone ==
    c_pc = "done" /\ c_hi > c_lo /\ c_raw1 <= c_raw2 /\ c_raw2 <= c_hi
        => c_p1 >= c_p2

\* two different readings below dry, the larger with the strictly smaller percentage
C6_Witness ==
    /\ c_pc = "done" /\ c_hi > c_lo
    /\ c_raw1 < c_raw2 /\ c_raw2 <= c_hi
    /\ c_p1 > c_p2

\* C7: every publish emits, on soilmoisture/pico1/sensor1 with QoS 1, the decimal
\* string of the percentage of the reading just taken under the calibration in
\* force, unclamped; and a tick that evaluates a percentage below 0 or above 100
\* compares it as it is (below 0 switches On, above 100 switches Off).
C7_PublishedValue ==
    [][/\ last'.op = "publish"
            => /\ inflight'.topic = "soilmoisture/pico1/sensor1"
               /\ inflight'.qos = 1
               /\ int_parses(inflight'.payload)
               /\ format_int(int_of(inflight'.payload)) = inflight'.payload
               /\ is_truncated_quotient(int_of(inflight'.payload),
                                        (HI_ADC - last'.raw) * 100, HI_ADC - LO_ADC)
       /\ last'.op = "pump_relay"
            => /\ percent_at(last'.raw) < 0 => relay' = 1
               /\ percent_at(last'.raw) > 100 => relay' = 0]_vars

\* a negative percentage has been published
C7_Witness ==
    /\ last.op = "publish"
    /\ int_of(inflight.payload) < 0

\* the minute stamps of the rows of the log
row_stamps == {csvfile[i][1] : i \in 1..Len(csvfile)}

\* C8: a message shows its value whether delivered once or twice, and the log
\* never holds two rows with the same minute timestamp.
C8_OneRowPerMinute ==
    /\ rx_last.op = "on_message" => readback = readback_text(rx_last.payload)
    /\ Cardinality(row_stamps) = Len(csvfile)

\* the device that publishes on a topic
device_of(topic) == CHOOSE d \in Devices : topic_of(d) = topic

\* C9: a reading is persisted exactly when at least one minute has passed since
\* the last persisted reading of the same device.
C9_PerDeviceLimiter ==
    [][rx_last'.op = "on_message"
         => ((Len(csvfile') = Len(csvfile) + 1)
               <=> int_of(strftime(now)) - dev_time[device_of(rx_last'.topic)] >= 1)]_vars

\* C9 (amended): the limiter is one for all devices.  A reading is persisted
\* exactly when the minute stamp read at its arrival exceeds by at least 1 the
\* stamp stored at the last persisted reading of any device; then one row
\* carrying the reading is appended and that stamp is stored.  Otherwise the
\* log and the stored stamp are left as they were.
C9_GlobalLimiter ==
    [][rx_last'.op = "on_message"
         => IF int_of(strftime(now)) - csv_record_time >= 1
            THEN /\ Len(csvfile') = Len(csvfile) + 1
                 /\ SubSeq(csvfile', 1, Len(csvfile)) = csvfile
                 /\ csvfile'[Len(csvfile')][2] = rx_last'.payload
                 /\ csv_record_time' = int_of(strftime(now))
            ELSE /\ csvfile' = csvfile
                 /\ csv_record_time' = csv_record_time]_vars

\* the first reading of pico2 was discarded because a reading of pico1 had been
\* persisted in the same minute
C9_Witness ==
    /\ rx_last.op = "on_message"
    /\ rx_last.topic = topic_of("pico2")
    /\ ~rx_last.kept
    /\ dev_time["pico2"] = 0
    /\ dev_time["pico1"] = rx_last.now_time

\* C10: a message whose payload is no integer is dropped: the displayed value,
\* the last-persisted timestamp, the log and the relay are unchanged and no
\* error is raised.
C10_MalformedDropped ==
    [][rx_last'.op = "on_message" /\ ~int_parses(rx_last'.payload)
         => /\ UNCHANGED <<current_moisture, readback, csv_record_time, csvfile, pi_relay>>
            /\ rx_exc' = "none"]_vars

\* the Actuator's policy (pump_relay of Pico-main.py) for given bounds
actuator_policy(level, percent, lower, upper) ==
    IF percent < lower THEN 1
    ELSE IF percent > upper THEN 0
    ELSE level

\* C11: on a message carrying an integer the Receiver decides its relay as the
\* Actuator would for the Receiver's bounds, the relay's prior level and the
\* percentage received; at percent = lower and at percent = upper both hold.
C11_SamePolicy ==
    [][rx_last'.op = "on_message" /\ int_parses(rx_last'.payload)
         => pi_relay' = actuator_policy(pi_relay, int_of(rx_last'.payload),
                                        self_pump_lower_bound, self_pump_upper_bound)]_vars

\* C13: the callback handles every message carrying an integer, a repeated or a
\* late one included, without raising.
C13_NoErrorOnInteger ==
    rx_last.op = "on_message" /\ int_parses(rx_last.payload) => rx_exc = "none"

\* C16: after every message carrying an integer the value displayed is the value
\* of that message, whether or not the reading was persisted.
C16_DisplayFollowsMessage ==
    rx_last.op = "on_message" /\ int_parses(rx_last.payload)
        => /\ current_moisture = rx_last.payload
           /\ readback = <<"S", "o", "i", "l", " ", "m", "o", "i", "s", "t", "u", "r", "e",
                           ":", " ">> \o rx_last.payload \o <<"%">>

\* a reading that was not persisted is displayed, in place of a different one
\* displayed before it
C16_Witness ==
    /\ rx_last.op = "on_message"
    /\ ~rx_last.kept
    /\ rx_last.payload = <<"-", "4">>
    /\ readback = readback_text(<<"-", "4">>)
    /\ Len(csvfile) > 0
    /\ csvfile[Len(csvfile)][2] = <<"6", "2">>

\* C12: when the sensor read of an evaluation tick or of a publish tick fails,
\* the tick is skipped: the relay keeps its level, nothing is published, and the
\* loops keep running.
C12_ReadFailureSkipsTick ==
    [][last'.op \in {"pump_relay_read_fail", "measure_read_fail"}
         => /\ pc' = "running"
            /\ relay' = relay
            /\ inflight' = inflight]_vars

\* C14: whatever calibrations have happened the dry and the wet calibration
\* values differ, and no tick has divided by zero.
C14_BoundsDiffer ==
    /\ HI_ADC # LO_ADC
    /\ exc.kind # "zerodiv"

\* C15: a dry-point calibration stores its reading in HI_ADC and leaves LO_ADC
\* and the relay as they were; a wet-point calibration stores its reading in
\* LO_ADC and leaves HI_ADC and the relay as they were; a calibration whose
\* sensor read fails changes neither value.  (The pump bounds are module
\* constants that no statement assigns.)
C15_CalibrationFrame ==
    [][/\ last'.op = "calibrate_0"
            => HI_ADC' = last'.raw /\ LO_ADC' = LO_ADC /\ relay' = relay
       /\ last'.op = "calibrate_100"
            => LO_ADC' = last'.raw /\ HI_ADC' = HI_ADC /\ relay' = relay
       /\ last'.op \in {"calibrate_0_fail", "calibrate_100_fail"}
            => HI_ADC' = HI_ADC /\ LO_ADC' = LO_ADC /\ relay' = relay]_vars

\* a dry-point calibration has stored a new reading while the relay was On and
\* the wet value was a calibrated one
C15_Witness ==
    /\ last.op = "calibrate_0"
    /\ HI_ADC = last.raw
    /\ HI_ADC # HI_ADC_0
    /\ LO_ADC # LO_ADC_0
    /\ relay = 1

\* the steps that evaluate or publish
TickOps == {"pump_relay", "pump_relay_raise", "publish", "measure_raise", "ack"}

C19_Cadence ==
    /\ ran["pump_relay"][1] # 0
          => ran["pump_relay"][2] - ran["pump_relay"][1] = 1
    /\ ran["measure_moisture"][1] # 0
          => ran["measure_moisture"][2] - ran["measure_moisture"][1] = 30

\* C20: the program terminates with the relay Off on every path, the one on
\* which client.disconnect() itself fails included.
C20_RelayOffOnEveryExit ==
    pc = "done" => relay = 0

\* C21: the row a write appends carries the minute stamp that on_message
\* compared and stored in csv_record_time for that write, and the stamps of the
\* rows of the log are strictly increasing in the order of the rows (the clock
\* never goes back).
C21_RowStampIsStoredStamp ==
    /\ Len(csvfile) > 0 => int_of(csvfile[Len(csvfile)][1]) = csv_record_time
    /\ \A i \in 1..Len(csvfile) : \A j \in 1..Len(csvfile) :
           i < j => int_of(csvfile[i][1]) < int_of(csvfile[j][1])

\* C22: pump_relay progresses independently of measure_moisture: in every fair
\* run in which the program keeps running, and so also while a publish stays
\* suspended waiting for its acknowledgement, pump_relay evaluates a fresh
\* reading again and again.
C22_EvaluationProgress ==
    <>[](pc = "running") => []<><<PumpRelayTick>>_vars

\* an evaluation has switched the relay On while a publish was awaiting its
\* acknowledgement
C22_Witness ==
    /\ pc = "running"
    /\ mm = "publish"
    /\ inflight # NoMsg
    /\ last.op = "pump_relay"
    /\ relay = 1
    /\ int_of(inflight.payload) >= pump_lower_bound

====
